---- MODULE Spec2Model ----
(***************************************************************************)
(* GTFS-Viewer: the dataset store on disk (base_dir/<group>/<snapshot>/    *)
(* <table>.txt) and the handlers of class GTFSViewer that read and write   *)
(* it: get_available_folders, get_routes, get_route_details, upload_gtfs.  *)
(*                                                                         *)
(* Text (a CSV cell, a request parameter) is a sequence of one-character   *)
(* strings, so that int(), str() and read_csv's column typing are computed *)
(* rather than assumed.                                                    *)
(***************************************************************************)
EXTENDS Integers, Sequences, FiniteSets, TLC

VARIABLES disk, ret, up

vars == <<disk, ret, up>>

----------------------------------------------------------------------------
(* Bounds of the model *)

MaxTrips == 2
MaxCalRows == 1
MaxExcRows == 2
MaxRoutes == 2
MaxShapePts == 2
MaxStopTimes == 2

----------------------------------------------------------------------------
(* Text, int() and str() *)

DigitChars == <<"0", "1", "2", "3", "4", "5", "6", "7", "8", "9">>

IsDigit(c) == \E k \in 1..10 : DigitChars[k] = c

DigitVal(c) == (CHOOSE k \in 1..10 : DigitChars[k] = c) - 1

\* int(route_id) succeeds on a non-empty run of decimal digits (leading zeros
\* allowed); on anything else it raises ValueError.
IsIntText(s) == Len(s) > 0 /\ \A i \in 1..Len(s) : IsDigit(s[i])

RECURSIVE IntOf(_)
IntOf(s) ==
    IF Len(s) = 0 THEN 0
    ELSE IntOf(SubSeq(s, 1, Len(s) - 1)) * 10 + DigitVal(s[Len(s)])

\* str(n) of a non-negative integer: canonical decimal, no leading zeros.
RECURSIVE StrOf(_)
StrOf(n) ==
    IF n < 10 THEN <<DigitChars[n + 1]>>
    ELSE StrOf(n \div 10) \o <<DigitChars[(n % 10) + 1]>>

\* strftime's zero-padded fields (%Y, %m, %d).
RECURSIVE ZeroPad(_, _)
ZeroPad(s, width) == IF Len(s) >= width THEN s ELSE ZeroPad(<<"0">> \o s, width)

----------------------------------------------------------------------------
(* pandas values: a column read by read_csv is int64 when every cell is an  *)
(* integer literal and object (text) otherwise.                             *)

IntCell(n) == [t |-> "int", i |-> n, s |-> <<>>]
StrCell(s) == [t |-> "str", i |-> 0, s |-> s]

\* read_csv's typing of one column, given the raw texts of its cells.
InferColumn(texts) ==
    IF Len(texts) > 0 /\ \A k \in 1..Len(texts) : IsIntText(texts[k])
    THEN [k \in 1..Len(texts) |-> IntCell(IntOf(texts[k]))]
    ELSE [k \in 1..Len(texts) |-> StrCell(texts[k])]

\* series == <a str>: elementwise, False for every cell of an int64 column.
EqStr(cell, s) == cell.t = "str" /\ cell.s = s

\* series == <an int>: elementwise, False for every cell of a text column.
EqInt(cell, n) == cell.t = "int" /\ cell.i = n

\* series.astype(str), and str(row[col]).
AsStr(cell) == IF cell.t = "int" THEN StrOf(cell.i) ELSE cell.s

\* The rows of a table with the route_id column typed as read_csv types it.
ReadRouteIdColumn(rows) ==
    LET col == InferColumn([k \in 1..Len(rows) |-> rows[k].route_id])
    IN  [k \in 1..Len(rows) |-> [rows[k] EXCEPT !.route_id = col[k]]]

\* read_csv's typing of the column col of a table; a table without rows or
\* without the column is left as it is.
TypeColumn(rows, col) ==
    IF Len(rows) = 0 \/ col \notin DOMAIN rows[1] THEN rows
    ELSE LET c == InferColumn([k \in 1..Len(rows) |-> rows[k][col]])
         IN  [k \in 1..Len(rows) |-> [rows[k] EXCEPT ![col] = c[k]]]

\* series == <a value taken from another column>, and series.isin(values):
\* an integer equals an integer of the same value, a text the same text, and
\* an integer never equals a text.
EqCell(a, b) == a.t = b.t /\ (IF a.t = "int" THEN a.i = b.i ELSE a.s = b.s)

\* routes.txt as read_csv types it (lines 135, 210): route_id and agency_id.
\* The other columns hold no integer literal in the tables of this model.
ReadRoutes(rows) == TypeColumn(ReadRouteIdColumn(rows), "agency_id")

\* trips.txt as read_csv types it (line 211): route_id and, when the table
\* has the column, shape_id. Trip ids and service ids are never integer
\* literals in the tables of this model, so read_csv leaves them as text.
ReadTrips(rows) == TypeColumn(ReadRouteIdColumn(rows), "shape_id")

\* The sequence of the elements of seq at the (ascending) indices in idx.
RECURSIVE Pick(_, _)
Pick(seq, idx) ==
    IF idx = {} THEN <<>>
    ELSE LET k == CHOOSE x \in idx : \A y \in idx : x <= y
         IN  <<seq[k]>> \o Pick(seq, idx \ {k})

----------------------------------------------------------------------------
(* datetime *)

\* datetime.strptime(date_time_str, "%Y-%m-%d %H:%M") of a well-formed string
\* is the record of its fields; the time of day is never used by the handler.
IsLeap(y) == (y % 4 = 0) /\ ((y % 100 # 0) \/ (y % 400 = 0))

DaysInMonth(y, m) ==
    IF m = 2 THEN (IF IsLeap(y) THEN 29 ELSE 28)
    ELSE IF m \in {4, 6, 9, 11} THEN 30 ELSE 31

RECURSIVE DaysBeforeMonth(_, _)
DaysBeforeMonth(y, m) ==
    IF m = 1 THEN 0 ELSE DaysBeforeMonth(y, m - 1) + DaysInMonth(y, m - 1)

\* date.toordinal(): 1 for 0001-01-01.
ToOrdinal(dt) ==
    LET y1 == dt.y - 1
    IN  y1 * 365 + (y1 \div 4) - (y1 \div 100) + (y1 \div 400)
        + DaysBeforeMonth(dt.y, dt.m) + dt.d

\* date_time.weekday(): Monday is 0, Sunday is 6.
Weekday(dt) == (ToOrdinal(dt) + 6) % 7

\* date_time.strftime("%Y%m%d")
service_date(dt) ==
    ZeroPad(StrOf(dt.y), 4) \o ZeroPad(StrOf(dt.m), 2) \o ZeroPad(StrOf(dt.d), 2)

\* int(service_date)
service_date_int(dt) == IntOf(service_date(dt))

weekday_mapping ==
    <<"monday", "tuesday", "wednesday", "thursday", "friday", "saturday", "sunday">>

\* weekday_mapping[weekday]; the Python dict is keyed 0..6.
weekday_column(dt) == weekday_mapping[Weekday(dt) + 1]

----------------------------------------------------------------------------
(* The dataset store: base_dir/<group>/<snapshot>/<table>.txt *)

Groups == {"g1", "g2"}
Snaps == {"t1"}
ZipName == "gtfs.zip"

required_files == <<"routes.txt", "stops.txt", "trips.txt", "stop_times.txt">>

RequiredSet == {required_files[k] : k \in 1..Len(required_files)}

OptionalSet == {"agency.txt", "calendar.txt", "calendar_dates.txt", "shapes.txt"}

FileNames == RequiredSet \cup OptionalSet

\* A file of a snapshot directory: absent, or a CSV table with its data rows.
NoFile == [present |-> FALSE, rows |-> <<>>]
File(rows) == [present |-> TRUE, rows |-> rows]

NoSnap == [exists |-> FALSE, files |-> [f \in FileNames |-> NoFile]]
Snap(files) == [exists |-> TRUE, files |-> files]

NoGroup == [exists |-> FALSE, zip |-> FALSE, snaps |-> [s \in Snaps |-> NoSnap]]

\* os.path.exists(os.path.join(self.base_dir, uuid_dir, timestamp_dir))
PathExists(d, g, s) ==
    /\ g \in Groups
    /\ d[g].exists
    /\ \/ s \in Snaps /\ d[g].snaps[s].exists
       \/ s = ZipName /\ d[g].zip

\* The file folder_path/<name>, absent when folder_path is no directory.
FileAt(d, g, s, name) ==
    IF g \in Groups /\ d[g].exists /\ s \in Snaps /\ d[g].snaps[s].exists
    THEN d[g].snaps[s].files[name]
    ELSE NoFile

\* os.path.isdir(timestamp_path)
IsSnapDir(d, g, s) == g \in Groups /\ d[g].exists /\ s \in Snaps /\ d[g].snaps[s].exists

----------------------------------------------------------------------------
(* get_route_details: trips of the route *)

\* Lines 222-237 without the comparison of line 226.
TripMatchesRouteStringsOnly(trip, route_id) ==
    EqStr(trip.route_id, route_id) \/ AsStr(trip.route_id) = route_id

\* Lines 222-237: the three comparisons when int(route_id) succeeds, the two
\* string comparisons when it raises ValueError.
TripMatchesRoute(trip, route_id) ==
    IF IsIntText(route_id)
    THEN \/ EqStr(trip.route_id, route_id)
         \/ EqInt(trip.route_id, IntOf(route_id))
         \/ AsStr(trip.route_id) = route_id
    ELSE \/ EqStr(trip.route_id, route_id)
         \/ AsStr(trip.route_id) = route_id

\* route_trips at line 239; trips_df is trips.txt as read_csv types it.
RouteTrips(trips_df, route_id) ==
    Pick(trips_df, {k \in 1..Len(trips_df) : TripMatchesRoute(trips_df[k], route_id)})

----------------------------------------------------------------------------
(* get_route_details: service ids active on the date *)

\* service_ids: None, or a collection of service ids.
None == [none |-> TRUE, ids |-> {}]
Ids(set) == [none |-> FALSE, ids |-> set]

\* Line 262-264: start_date <= service_date_int <= end_date.
InServicePeriod(row, sdi) == row.start_date <= sdi /\ row.end_date >= sdi

\* Lines 275-276: the weekday column, when the table has it, must be 1.
RunsOnWeekday(row, col) == (col \in DOMAIN row.days) => row.days[col] = 1

\* valid_services at line 278.
valid_services(calendar_df, sdi, col) ==
    Pick(calendar_df, {k \in 1..Len(calendar_df) :
            InServicePeriod(calendar_df[k], sdi) /\ RunsOnWeekday(calendar_df[k], col)})

\* Lines 249-280: service_ids after calendar.txt.
CalendarServiceIds(calendar_file, sdi, col) ==
    IF ~calendar_file.present THEN None
    ELSE LET vs == valid_services(calendar_file.rows, sdi, col)
         IN  IF vs = <<>> THEN None
             ELSE Ids({vs[k].service_id : k \in 1..Len(vs)})

\* date_exceptions at line 292.
date_exceptions(calendar_dates_df, sdi) ==
    Pick(calendar_dates_df, {k \in 1..Len(calendar_dates_df) :
            calendar_dates_df[k].date = sdi})

\* Lines 296, 297.
added_services(exc) ==
    {exc[k].service_id : k \in {j \in 1..Len(exc) : exc[j].exception_type = 1}}

removed_services(exc) ==
    {exc[k].service_id : k \in {j \in 1..Len(exc) : exc[j].exception_type = 2}}

\* Lines 282-309: service_ids after calendar_dates.txt.
ApplyCalendarDates(service_ids, calendar_dates_file, sdi) ==
    IF ~calendar_dates_file.present THEN service_ids
    ELSE LET exc == date_exceptions(calendar_dates_file.rows, sdi)
         IN  IF exc = <<>> THEN service_ids
             ELSE IF ~service_ids.none
                  THEN Ids((service_ids.ids \ removed_services(exc))
                           \cup added_services(exc))
                  ELSE Ids(added_services(exc))

\* Lines 248-309: service_ids at line 311, for the parsed date_time.
ServiceIdsOn(calendar_file, calendar_dates_file, dt) ==
    LET sdi == service_date_int(dt)
    IN  ApplyCalendarDates(CalendarServiceIds(calendar_file, sdi, weekday_column(dt)),
                           calendar_dates_file, sdi)

\* Line 312 without its guard: the filter applied whatever service_ids is.
FilterAppliesAlways(service_ids) == TRUE

\* Line 312: the filter is applied only to a non-empty collection.
FilterApplies(service_ids) == ~service_ids.none /\ service_ids.ids # {}

\* Line 314: route_trips[route_trips['service_id'].isin(service_ids)], or
\* route_trips itself on the else branch of line 320.
FilterByService(route_trips, service_ids) ==
    IF FilterApplies(service_ids)
    THEN Pick(route_trips, {k \in 1..Len(route_trips) :
                route_trips[k].service_id \in service_ids.ids})
    ELSE route_trips

----------------------------------------------------------------------------
(* get_route_details: stops, shape, route record *)

\* Lines 325, 359: the stop ids of the stop_times rows joined to route_trips
\* on trip_id, as values of the stop_id column of stop_times_df.
StopIds(route_trips, stop_times_df) ==
    {stop_times_df[k].stop_id :
        k \in {j \in 1..Len(stop_times_df) :
                 \E i \in 1..Len(route_trips) :
                    route_trips[i].trip_id = stop_times_df[j].trip_id}}

\* Lines 362-372: the stops.txt rows whose stop_id isin(stop_ids), in table
\* order, with 'id' the str() of the stored stop_id.
StopsList(stops_df, stop_ids) ==
    LET rows == Pick(stops_df, {k \in 1..Len(stops_df) :
                        \E v \in stop_ids : EqCell(stops_df[k].stop_id, v)})
    IN  [k \in 1..Len(rows) |->
            [id |-> AsStr(rows[k].stop_id), name |-> rows[k].stop_name,
             lat |-> rows[k].stop_lat, lng |-> rows[k].stop_lon]]

\* sort_values('shape_pt_sequence'): ascending, ties in table order.
RECURSIVE sort_values(_)
sort_values(rows) ==
    IF rows = <<>> THEN <<>>
    ELSE LET k == CHOOSE i \in 1..Len(rows) : \A j \in 1..Len(rows) :
                    \/ rows[i].shape_pt_sequence < rows[j].shape_pt_sequence
                    \/ /\ rows[i].shape_pt_sequence = rows[j].shape_pt_sequence
                       /\ i <= j
         IN  <<rows[k]>> \o sort_values(Pick(rows, (1..Len(rows)) \ {k}))

\* Lines 328-356. route_trips carries shape_id as ReadTrips typed it, and
\* shapes.txt is typed by its own read_csv at line 335.
ShapePoints(route_trips, shapes_file) ==
    IF Len(route_trips) > 0 /\ "shape_id" \in DOMAIN route_trips[1] /\ shapes_file.present
    THEN LET first_shape_id == route_trips[1].shape_id
             shapes_df == TypeColumn(shapes_file.rows, "shape_id")
             shape_df == sort_values(Pick(shapes_df,
                            {k \in 1..Len(shapes_df) :
                                EqCell(shapes_df[k].shape_id, first_shape_id)}))
         IN  [k \in 1..Len(shape_df) |->
                [lat |-> shape_df[k].shape_pt_lat, lng |-> shape_df[k].shape_pt_lon]]
    ELSE <<>>

\* str(row[col]) for every column of a routes row: a field map, as the set of
\* its <<column, text>> pairs.
RouteFields(row) ==
    {<<"route_id", AsStr(row.route_id)>>,
     <<"agency_id", AsStr(row.agency_id)>>,
     <<"route_short_name", row.route_short_name>>}

\* Line 376: routes_df['route_id'] == route_id, the query string as given.
RouteRowMatches(row, route_id) == EqStr(row.route_id, route_id)

\* Lines 374-380: the first matching row's fields, {} when no row matches.
RouteInfo(routes_df, route_id) ==
    LET hits == Pick(routes_df, {k \in 1..Len(routes_df) :
                        RouteRowMatches(routes_df[k], route_id)})
    IN  IF hits = <<>> THEN {} ELSE RouteFields(hits[1])

----------------------------------------------------------------------------
(* get_route_details *)

NoLocals == [matched |-> <<>>, service_ids |-> None, survivors |-> <<>>]

\* {"error": msg}; detail is the interpolated part of the message.
ErrorResult(msg, detail, locals) ==
    [error |-> msg, detail |-> detail, route |-> {}, shape |-> <<>>, stops |-> <<>>,
     locals |-> locals]

NoTripsForRoute == "No trips found for route ID"
NoTripsForDate == "No trips scheduled for route ID"
FolderNotFound == "Folder not found"
MissingFile == "Required GTFS file missing"

\* str(e) of the ValueError raised by `uuid_dir, timestamp_dir = folder_id.split('/')`.
UnpackError(parts) ==
    IF Len(parts) < 2 THEN "not enough values to unpack (expected 2, got 1)"
    ELSE "too many values to unpack (expected 2)"

\* Line 204: the files checked, in this order.
checked_files == <<"routes.txt", "trips.txt", "stop_times.txt", "stops.txt">>

\* The files of folder_path, every one absent when it is no directory.
FilesAt(d, g, s) ==
    IF g \in Groups /\ d[g].exists /\ s \in Snaps /\ d[g].snaps[s].exists
    THEN d[g].snaps[s].files
    ELSE [f \in FileNames |-> NoFile]

\* Lines 323-389: the payload built from the trips that survived.
Payload(files, route_id, locals) ==
    [error |-> "", detail |-> "",
     route |-> RouteInfo(ReadRoutes(files["routes.txt"].rows), route_id),
     shape |-> ShapePoints(locals.survivors, files["shapes.txt"]),
     stops |-> StopsList(TypeColumn(files["stops.txt"].rows, "stop_id"),
                         StopIds(locals.survivors,
                                 TypeColumn(files["stop_times.txt"].rows, "stop_id"))),
     locals |-> locals]

\* Lines 311-321 without the early return of line 319.
AfterServiceIdsNoReturn(files, route_id, route_trips, service_ids) ==
    Payload(files, route_id,
            [matched |-> route_trips, service_ids |-> service_ids,
             survivors |-> FilterByService(route_trips, service_ids)])

\* Lines 311-321: the service filter and its early return.
AfterServiceIds(files, route_id, route_trips, service_ids) ==
    LET locals == [matched |-> route_trips, service_ids |-> service_ids,
                   survivors |-> FilterByService(route_trips, service_ids)]
    IN  IF FilterApplies(service_ids) /\ Len(locals.survivors) = 0
        THEN ErrorResult(NoTripsForDate, "", locals)
        ELSE Payload(files, route_id, locals)

\* Lines 239-309: the early return on no trip of the route, then service_ids.
AfterRouteFilter(files, route_id, dt, route_trips) ==
    IF Len(route_trips) = 0
    THEN ErrorResult(NoTripsForRoute, "", NoLocals)
    ELSE AfterServiceIds(files, route_id, route_trips,
                         ServiceIdsOn(files["calendar.txt"], files["calendar_dates.txt"], dt))

\* Lines 196-237: the required files, then the trips of the route.
AfterFolderCheck(files, route_id, dt) ==
    LET missing == {k \in 1..Len(checked_files) : ~files[checked_files[k]].present}
    IN  IF missing # {}
        THEN ErrorResult(MissingFile,
                         checked_files[CHOOSE k \in missing : \A j \in missing : k <= j],
                         NoLocals)
        ELSE AfterRouteFilter(files, route_id, dt,
                              RouteTrips(ReadTrips(files["trips.txt"].rows), route_id))

\* The handler's return value. folder_id is the sequence of the parts that
\* folder_id.split('/') yields; locals records route_trips at line 239,
\* service_ids at line 311 and route_trips at line 323 (or at the return of
\* line 319).
get_route_details(d, folder_id, route_id, dt) ==
    IF Len(folder_id) # 2 THEN ErrorResult(UnpackError(folder_id), "", NoLocals)
    ELSE IF ~PathExists(d, folder_id[1], folder_id[2])
    THEN ErrorResult(FolderNotFound, "", NoLocals)
    ELSE AfterFolderCheck(FilesAt(d, folder_id[1], folder_id[2]), route_id, dt)

----------------------------------------------------------------------------
(* get_available_folders, get_routes *)

base_dir == "./data"

\* Lines 71-84 with a required file left out of required_files.
_is_valid_gtfs_three(d, g, s) ==
    \A k \in 1..(Len(required_files) - 1) : FileAt(d, g, s, required_files[k]).present

\* Lines 71-84: all four required files exist in the folder.
_is_valid_gtfs(d, g, s) ==
    \A k \in 1..Len(required_files) : FileAt(d, g, s, required_files[k]).present

\* Lines 95-103: the first agency row's agency_name, <<>> for None.
_get_agency_name(d, g, s) ==
    LET agency_file == FileAt(d, g, s, "agency.txt")
    IN  IF agency_file.present /\ Len(agency_file.rows) > 0
        THEN agency_file.rows[1].agency_name
        ELSE <<>>

\* os.listdir(uuid_path): the snapshot directories and the saved archive.
ListGroupDir(d, g) ==
    {s \in Snaps : d[g].snaps[s].exists} \cup (IF d[g].zip THEN {ZipName} ELSE {})

\* Lines 27-60. The entries come in directory-enumeration order, which is
\* unspecified: the result is the set of the entries.
get_available_folders(d) ==
    {[path |-> <<base_dir, g, s>>,
      id |-> <<g, s>>,
      name |-> IF _get_agency_name(d, g, s) # <<>>
               THEN _get_agency_name(d, g, s) ELSE <<s>>] :
        <<g, s>> \in {p \in Groups \X (Snaps \cup {ZipName}) :
                        /\ d[p[1]].exists
                        /\ p[2] \in ListGroupDir(d, p[1])
                        /\ IsSnapDir(d, p[1], p[2])
                        /\ _is_valid_gtfs(d, p[1], p[2])}}

\* pd.merge refuses key columns of which one is int64 and the other holds
\* text: it raises ValueError ("You are trying to merge on int64 and object
\* columns"). A key column without rows is compatible with either.
MergeRaises(routes_df, agency_df) ==
    /\ Len(routes_df) > 0
    /\ Len(agency_df) > 0
    /\ routes_df[1].agency_id.t # agency_df[1].agency_id.t

\* pd.merge(routes_df, agency_df, on='agency_id', how='left') followed by
\* fillna('') and the conversion of every row to a field map (lines 145-157):
\* one row per pair of a routes row and an agency row of the same key, and
\* one row for a routes row without agency.
RECURSIVE MergeAgency(_, _)
MergeAgency(routes_df, agency_df) ==
    IF routes_df = <<>> THEN <<>>
    ELSE LET row == Head(routes_df)
             hits == Pick(agency_df, {k \in 1..Len(agency_df) :
                            EqCell(agency_df[k].agency_id, row.agency_id)})
         IN  (IF hits = <<>>
              THEN <<RouteFields(row) \cup {<<"agency_name", <<>>>>}>>
              ELSE [k \in 1..Len(hits) |->
                       RouteFields(row) \cup {<<"agency_name", hits[k].agency_name>>}])
             \o MergeAgency(Tail(routes_df), agency_df)

\* Lines 114-166: the list returned, [] on every failure, the exception of
\* pd.merge caught at line 162 included.
get_routes(d, folder_id) ==
    IF Len(folder_id) # 2 THEN <<>>
    ELSE
    LET g == folder_id[1]
        s == folder_id[2]
        routes_file == FileAt(d, g, s, "routes.txt")
        agency_file == FileAt(d, g, s, "agency.txt")
        routes_df == ReadRoutes(routes_file.rows)
        agency_df == TypeColumn(agency_file.rows, "agency_id")
    IN
    IF ~PathExists(d, g, s) THEN <<>>
    ELSE IF ~routes_file.present THEN <<>>
    ELSE IF agency_file.present
    THEN IF MergeRaises(routes_df, agency_df) THEN <<>>
         ELSE MergeAgency(routes_df, agency_df)
    ELSE [k \in 1..Len(routes_df) |-> RouteFields(routes_df[k])]

----------------------------------------------------------------------------
(* upload_gtfs, one step per file-system call *)

Uploaders == {"u1"}

NoArchive == [is_zip |-> FALSE, members |-> {}]

Idle == [pc |-> "idle", group |-> "", snap |-> "", archive |-> NoArchive, pending |-> {}]

\* An uploaded archive is [is_zip, members]: the set of its members, each
\* <<name, rows>>; is_zip is false for a file zipfile cannot open.
\* Lines 408-411: a fresh uuid4 directory.
UploadMakeGroup(u, archive, g) ==
    /\ up[u].pc = "idle"
    /\ ~disk[g].exists
    /\ disk' = [disk EXCEPT ![g].exists = TRUE]
    /\ up' = [up EXCEPT ![u] = [pc |-> "mkdir", group |-> g, snap |-> "",
                                archive |-> archive, pending |-> {}]]
    /\ UNCHANGED ret

\* Lines 414-417: the timestamp directory.
UploadMakeSnap(u, s) ==
    /\ up[u].pc = "mkdir"
    /\ disk' = [disk EXCEPT ![up[u].group].snaps[s].exists = TRUE]
    /\ up' = [up EXCEPT ![u].pc = "save", ![u].snap = s]
    /\ UNCHANGED ret

\* Lines 420-423: the archive is saved as <group>/gtfs.zip.
UploadSaveZip(u) ==
    /\ up[u].pc = "save"
    /\ disk' = [disk EXCEPT ![up[u].group].zip = TRUE]
    /\ up' = [up EXCEPT ![u].pc = "open"]
    /\ UNCHANGED ret

\* Line 427: zipfile.ZipFile raises BadZipFile on a file that is no archive;
\* the exception is re-raised at line 448.
UploadOpenZip(u) ==
    /\ up[u].pc = "open"
    /\ IF up[u].archive.is_zip
       THEN /\ up' = [up EXCEPT ![u].pc = "extract",
                                ![u].pending = up[u].archive.members]
            /\ UNCHANGED ret
       ELSE /\ up' = [up EXCEPT ![u] = Idle]
            /\ ret' = [op |-> "upload_gtfs", raised |-> "BadZipFile", folder_id |-> <<>>]
    /\ UNCHANGED disk

\* Line 428: extractall writes the members one after the other.
UploadExtractMember(u) ==
    /\ up[u].pc = "extract"
    /\ \E m \in up[u].pending :
        /\ disk' = [disk EXCEPT ![up[u].group].snaps[up[u].snap].files[m[1]] = File(m[2])]
        /\ up' = [up EXCEPT ![u].pending = up[u].pending \ {m}]
    /\ UNCHANGED ret

\* Line 432 left out: the call goes on to validation with the archive kept.
UploadKeepZip(u) ==
    /\ up[u].pc = "extract"
    /\ up[u].pending = {}
    /\ up' = [up EXCEPT ![u].pc = "validate"]
    /\ UNCHANGED <<disk, ret>>

\* Line 432: os.remove(zip_path), once every member is extracted.
UploadRemoveZip(u) ==
    /\ up[u].pc = "extract"
    /\ up[u].pending = {}
    /\ disk' = [disk EXCEPT ![up[u].group].zip = FALSE]
    /\ up' = [up EXCEPT ![u].pc = "validate"]
    /\ UNCHANGED ret

\* str(e) of the ValueError of line 440.
InvalidGTFS == "Uploaded file does not contain valid GTFS data"

\* Lines 435-443: the folder id, or ValueError re-raised at line 448.
UploadValidate(u) ==
    /\ up[u].pc = "validate"
    /\ ret' = IF _is_valid_gtfs(disk, up[u].group, up[u].snap)
              THEN [op |-> "upload_gtfs", raised |-> "",
                    folder_id |-> <<up[u].group, up[u].snap>>]
              ELSE [op |-> "upload_gtfs", raised |-> InvalidGTFS, folder_id |-> <<>>]
    /\ up' = [up EXCEPT ![u] = Idle]
    /\ UNCHANGED disk

----------------------------------------------------------------------------
(* The query handlers as actions: the call's arguments and its return value *)

GetAvailableFolders ==
    /\ ret' = [op |-> "get_available_folders", out |-> get_available_folders(disk)]
    /\ UNCHANGED <<disk, up>>

GetRoutes(folder_id) ==
    /\ ret' = [op |-> "get_routes", folder_id |-> folder_id,
               out |-> get_routes(disk, folder_id)]
    /\ UNCHANGED <<disk, up>>

GetRouteDetails(folder_id, route_id, dt) ==
    /\ ret' = [op |-> "get_route_details", folder_id |-> folder_id,
               route_id |-> route_id, date_time |-> dt,
               out |-> get_route_details(disk, folder_id, route_id, dt)]
    /\ UNCHANGED <<disk, up>>

----------------------------------------------------------------------------
(* The inputs the model draws from *)

Services == {"sA", "sB"}

Fri == [y |-> 2024, m |-> 6, d |-> 14]
Sat == [y |-> 2024, m |-> 6, d |-> 15]

TargetDates == {Fri, Sat}

AllDays == [c \in {weekday_mapping[k] : k \in 1..7} |-> 1]

WeekdaysOnly ==
    [c \in {weekday_mapping[k] : k \in 1..7} |-> IF c \in {"saturday", "sunday"} THEN 0 ELSE 1]

\* calendar.txt rows: a window that is the Friday alone and one that starts
\* on the Saturday, the latter with and without the weekend flags.
CalendarRows ==
    {[service_id |-> sid, start_date |-> w[1], end_date |-> w[2], days |-> w[3]] :
        sid \in Services,
        w \in {<<20240614, 20240614, AllDays>>,
               <<20240615, 20240616, AllDays>>,
               <<20240615, 20240616, WeekdaysOnly>>}}

\* calendar_dates.txt rows, all for one date.
ExceptionRows ==
    {[service_id |-> sid, date |-> 20240615, exception_type |-> t] :
        sid \in Services, t \in {1, 2}}

\* Route ids as they are written in the files and in the request.
IdTexts == {<<"4">>, <<"0", "4">>, <<"4", "0">>, <<"A">>}

RECURSIVE SetToSeq(_)
SetToSeq(S) ==
    IF S = {} THEN <<>>
    ELSE LET x == CHOOSE x \in S : TRUE IN <<x>> \o SetToSeq(S \ {x})

\* The tables of at most n rows drawn from Rows (order is immaterial to the
\* handler for calendar.txt and calendar_dates.txt).
TablesUpTo(Rows, n) == {SetToSeq(T) : T \in {X \in SUBSET Rows : Cardinality(X) <= n}}

SeqsUpTo(S, n) == UNION {[1..k -> S] : k \in 0..n}

TripIds == <<"T1", "T2", "T3", "T4">>

\* trips.txt with the given <<route_id, service_id>> per row.
TripsTable(spec) ==
    [k \in 1..Len(spec) |->
        [trip_id |-> TripIds[k], route_id |-> spec[k][1], service_id |-> spec[k][2],
         shape_id |-> <<"s">>]]

RoutesTable(ids) ==
    [k \in 1..Len(ids) |->
        [route_id |-> ids[k], agency_id |-> <<"A">>, route_short_name |-> <<"R">> \o StrOf(k)]]

SampleStops ==
    <<[stop_id |-> <<"P">>, stop_name |-> <<"a">>, stop_lat |-> 1, stop_lon |-> 1],
      [stop_id |-> <<"Q">>, stop_name |-> <<"b">>, stop_lat |-> 2, stop_lon |-> 2]>>

SampleStopTimes ==
    <<[trip_id |-> "T1", stop_id |-> <<"P">>], [trip_id |-> "T2", stop_id |-> <<"Q">>]>>

SampleAgency == <<[agency_id |-> <<"A">>, agency_name |-> <<"M">>]>>

SampleCalendar ==
    <<[service_id |-> "sA", start_date |-> 20240614, end_date |-> 20240615,
       days |-> AllDays]>>

\* A snapshot directory with the four required tables and the given
\* calendar.txt and calendar_dates.txt (each a file record).
Dataset(routes, trips, calendar_file, calendar_dates_file) ==
    Snap([f \in FileNames |->
            CASE f = "routes.txt" -> File(routes)
              [] f = "trips.txt" -> File(trips)
              [] f = "stops.txt" -> File(SampleStops)
              [] f = "stop_times.txt" -> File(SampleStopTimes)
              [] f = "calendar.txt" -> calendar_file
              [] f = "calendar_dates.txt" -> calendar_dates_file
              [] OTHER -> NoFile])

\* The disk holding one dataset, g1/t1.
OneDataset(snap) ==
    [g \in Groups |->
        IF g = "g1"
        THEN [exists |-> TRUE, zip |-> FALSE, snaps |-> [s \in Snaps |-> snap]]
        ELSE NoGroup]

NoCall == [op |-> "none"]

----------------------------------------------------------------------------
(* Service resolution: every calendar, every exception table, every date *)

\* trips.txt rows: route 4 runs under both services, route A under sA only.
ServiceTripRows == {<<<<"4">>, "sA">>, <<<<"4">>, "sB">>, <<<<"A">>, "sA">>}

InitService ==
    /\ \E trips \in SeqsUpTo(ServiceTripRows, MaxTrips),
          cal \in {NoFile} \cup {File(t) : t \in TablesUpTo(CalendarRows, MaxCalRows)},
          exc \in {NoFile} \cup {File(t) : t \in TablesUpTo(ExceptionRows, MaxExcRows)} :
            disk = OneDataset(Dataset(RoutesTable(<<<<"4">>, <<"A">>>>),
                                      TripsTable(trips), cal, exc))
    /\ ret = NoCall
    /\ up = [u \in Uploaders |-> Idle]

NextService ==
    \E route_id \in {<<"4">>, <<"A">>}, dt \in TargetDates :
        GetRouteDetails(<<"g1", "t1">>, route_id, dt)

SpecService == InitService /\ [][NextService]_vars

----------------------------------------------------------------------------
(* Route id matching: every typing of the route_id columns, every query *)

InitMatch ==
    /\ \E trips \in SeqsUpTo(IdTexts \X {"sA"}, MaxTrips),
          routes \in SeqsUpTo(IdTexts, MaxRoutes) :
            disk = OneDataset(Dataset(RoutesTable(routes), TripsTable(trips), NoFile, NoFile))
    /\ ret = NoCall
    /\ up = [u \in Uploaders |-> Idle]

NextMatch == \E route_id \in IdTexts : GetRouteDetails(<<"g1", "t1">>, route_id, Sat)

SpecMatch == InitMatch /\ [][NextMatch]_vars

----------------------------------------------------------------------------
(* The store: any set of files in g1/t1, uploads into a fresh group, and   *)
(* the three query handlers                                                *)

SampleRoutes == RoutesTable(<<<<"4">>>>)
SampleTrips == TripsTable(<<<<<<"4">>, "sA">>>>)

\* The content of a file of the given name.
SampleRows(f) ==
    CASE f = "routes.txt" -> SampleRoutes
      [] f = "trips.txt" -> SampleTrips
      [] f = "stops.txt" -> SampleStops
      [] f = "stop_times.txt" -> SampleStopTimes
      [] f = "agency.txt" -> SampleAgency
      [] f = "calendar.txt" -> SampleCalendar
      [] OTHER -> <<>>

\* Optional tables that occur in the store's datasets and archives.
StoreOptional == {"agency.txt"}

\* A snapshot directory holding exactly the files named, routes.txt with the
\* given rows.
StoreSnap(names, routes) ==
    Snap([f \in FileNames |->
            IF f \notin names THEN NoFile
            ELSE IF f = "routes.txt" THEN File(routes) ELSE File(SampleRows(f))])

Archives ==
    {[is_zip |-> FALSE, members |-> {}]} \cup
    {[is_zip |-> TRUE, members |-> {<<f, SampleRows(f)>> : f \in names}] :
        names \in {RequiredSet, RequiredSet \ {"stops.txt"},
                   RequiredSet \cup {"agency.txt"}}}

\* Folder ids as requests give them: well-formed ones, one naming no
\* directory, and ones that do not split into two parts.
FolderIds ==
    {<<"g1", "t1">>, <<"g2", "t1">>, <<"nosuch", "t1">>, <<"g1", ZipName>>,
     <<"g1">>, <<"g1", "t1", "x">>}

Init ==
    /\ \E names \in SUBSET (RequiredSet \cup StoreOptional),
          routes \in {<<>>, SampleRoutes} :
            disk = [g \in Groups |->
                      IF g = "g1"
                      THEN [exists |-> TRUE, zip |-> FALSE,
                            snaps |-> [s \in Snaps |-> StoreSnap(names, routes)]]
                      ELSE NoGroup]
    /\ ret = NoCall
    /\ up = [u \in Uploaders |-> Idle]

Next ==
    \/ \E u \in Uploaders, a \in Archives, g \in Groups : UploadMakeGroup(u, a, g)
    \/ \E u \in Uploaders, s \in Snaps : UploadMakeSnap(u, s)
    \/ \E u \in Uploaders : UploadSaveZip(u)
    \/ \E u \in Uploaders : UploadOpenZip(u)
    \/ \E u \in Uploaders : UploadExtractMember(u)
    \/ \E u \in Uploaders : UploadRemoveZip(u)
    \/ \E u \in Uploaders : UploadValidate(u)
    \/ GetAvailableFolders
    \/ \E folder_id \in FolderIds : GetRoutes(folder_id)
    \/ \E folder_id \in FolderIds : GetRouteDetails(folder_id, <<"4">>, Sat)

Spec == Init /\ [][Next]_vars

----------------------------------------------------------------------------
(* Shapes: every trips table with its shape ids, every shapes.txt *)

ActiveCalendar == File(SampleCalendar)

\* trips.txt rows <<route_id, service_id, shape_id>>: route 4 under the
\* service that runs (sA) and the one that does not (sB), another route,
\* and the shape ids 1 and B.
ShapeTripRows ==
    {<<<<"4">>, "sA", <<"1">>>>, <<<<"4">>, "sA", <<"B">>>>,
     <<<<"4">>, "sB", <<"1">>>>, <<<<"4">>, "sB", <<"B">>>>, <<<<"A">>, "sA", <<"B">>>>}

\* trips.txt with the given <<route_id, service_id, shape_id>> per row.
ShapedTrips(spec) ==
    [k \in 1..Len(spec) |->
        [trip_id |-> TripIds[k], route_id |-> spec[k][1], service_id |-> spec[k][2],
         shape_id |-> spec[k][3]]]

\* The same table without the (optional) shape_id column.
UnshapedTrips(spec) ==
    [k \in 1..Len(spec) |->
        [trip_id |-> TripIds[k], route_id |-> spec[k][1], service_id |-> spec[k][2]]]

\* shapes.txt rows: two shapes of two points each, every point with its own
\* coordinates.
ShapeRows ==
    {[shape_id |-> sh[1], shape_pt_sequence |-> n,
      shape_pt_lat |-> sh[2] + n, shape_pt_lon |-> sh[2] + n + 5] :
        sh \in {<<<<"1">>, 10>>, <<<<"B">>, 20>>}, n \in 1..2}

\* The shapes.txt files of at most MaxShapePts points, in every file order;
\* (shape_id, shape_pt_sequence) is the key of the table.
ShapeFiles ==
    {NoFile} \cup
    {File(t) : t \in {q \in SeqsUpTo(ShapeRows, MaxShapePts) :
                        \A i, j \in 1..Len(q) : q[i] = q[j] => i = j}}

\* A snapshot directory with the given trips, calendar.txt and shapes.txt.
WithShapes(snap, shapes_file) ==
    [snap EXCEPT !.files["shapes.txt"] = shapes_file]

InitShape ==
    /\ \E spec \in SeqsUpTo(ShapeTripRows, MaxTrips),
          shaped \in BOOLEAN,
          cal \in {NoFile, ActiveCalendar},
          shapes_file \in ShapeFiles :
            disk = OneDataset(WithShapes(
                      Dataset(RoutesTable(<<<<"4">>, <<"A">>>>),
                              IF shaped THEN ShapedTrips(spec) ELSE UnshapedTrips(spec),
                              cal, NoFile),
                      shapes_file))
    /\ ret = NoCall
    /\ up = [u \in Uploaders |-> Idle]

NextShape == \E route_id \in {<<"4">>, <<"A">>} : GetRouteDetails(<<"g1", "t1">>, route_id, Sat)

SpecShape == InitShape /\ [][NextShape]_vars

----------------------------------------------------------------------------
(* Stops: every stop_times table, every stops.txt *)

\* The stop ids 1 and P.
StopIdTexts == {<<"1">>, <<"P">>}

\* stop_times.txt rows: the first two trips calling at either stop.
StopTimeRows == {[trip_id |-> t, stop_id |-> p] : t \in {TripIds[1], TripIds[2]}, p \in StopIdTexts}

\* stops.txt with the given stop ids, stop_id being the key of the table.
StopsTable(ids) ==
    [k \in 1..Len(ids) |->
        [stop_id |-> ids[k], stop_name |-> <<"n">> \o ids[k], stop_lat |-> k, stop_lon |-> k]]

StopsTables ==
    {StopsTable(ids) : ids \in {q \in SeqsUpTo(StopIdTexts, 2) :
                                  \A i, j \in 1..Len(q) : q[i] = q[j] => i = j}}

\* A snapshot directory with the given stop_times.txt and stops.txt.
WithStops(snap, stop_times, stops) ==
    [snap EXCEPT !.files["stop_times.txt"] = File(stop_times),
                 !.files["stops.txt"] = File(stops)]

InitStops ==
    /\ \E spec \in SeqsUpTo(ServiceTripRows, MaxTrips),
          cal \in {NoFile, ActiveCalendar},
          stop_times \in SeqsUpTo(StopTimeRows, MaxStopTimes),
          stops \in StopsTables :
            disk = OneDataset(WithStops(
                      Dataset(RoutesTable(<<<<"4">>, <<"A">>>>), TripsTable(spec), cal, NoFile),
                      stop_times, stops))
    /\ ret = NoCall
    /\ up = [u \in Uploaders |-> Idle]

NextStops == \E route_id \in {<<"4">>, <<"A">>} : GetRouteDetails(<<"g1", "t1">>, route_id, Sat)

SpecStops == InitStops /\ [][NextStops]_vars

----------------------------------------------------------------------------
(* Ingest then query: every valid archive, uploaded into a fresh group *)

\* The agency ids 1 and A.
AgencyIdTexts == {<<"1">>, <<"A">>}

\* routes.txt with the given agency_id per row.
RoutesOfAgencies(ags) ==
    [k \in 1..Len(ags) |->
        [route_id |-> <<"r">> \o StrOf(k), agency_id |-> ags[k],
         route_short_name |-> <<"R">> \o StrOf(k)]]

\* agency.txt with the given agency ids, agency_id being the key of the
\* table.
AgencyTable(ids) ==
    [k \in 1..Len(ids) |-> [agency_id |-> ids[k], agency_name |-> <<"M">> \o ids[k]]]

\* The archives holding the four required tables, routes.txt with one to
\* MaxRoutes rows, and possibly an agency.txt of one or two agencies; and
\* a file that is no archive.
ValidArchives ==
    {[is_zip |-> TRUE,
      members |-> {<<f, SampleRows(f)>> : f \in RequiredSet \ {"routes.txt"}}
                    \cup {<<"routes.txt", RoutesOfAgencies(ags)>>}
                    \cup agency] :
        ags \in {q \in SeqsUpTo(AgencyIdTexts, MaxRoutes) : Len(q) > 0},
        agency \in {{}} \cup {{<<"agency.txt", AgencyTable(SetToSeq(ids))>>} :
                                ids \in (SUBSET AgencyIdTexts) \ {{}}}}

InitRoundTrip ==
    /\ disk = OneDataset(StoreSnap(RequiredSet, SampleRoutes))
    /\ ret = NoCall
    /\ up = [u \in Uploaders |-> Idle]

NextRoundTrip ==
    \/ \E u \in Uploaders, a \in ValidArchives \cup {NoArchive}, g \in Groups :
            UploadMakeGroup(u, a, g)
    \/ \E u \in Uploaders, s \in Snaps : UploadMakeSnap(u, s)
    \/ \E u \in Uploaders : UploadSaveZip(u)
    \/ \E u \in Uploaders : UploadOpenZip(u)
    \/ \E u \in Uploaders : UploadExtractMember(u)
    \/ \E u \in Uploaders : UploadRemoveZip(u)
    \/ \E u \in Uploaders : UploadValidate(u)
    \/ GetAvailableFolders
    \/ \E folder_id \in {<<"g1", "t1">>, <<"g2", "t1">>} : GetRoutes(folder_id)

SpecRoundTrip == InitRoundTrip /\ [][NextRoundTrip]_vars

----------------------------------------------------------------------------
(* What the specification says of a call, stated from the files themselves *)

Details == ret.op = "get_route_details"

\* The files of the dataset that SpecService and SpecMatch query.
Queried == disk["g1"].snaps["t1"].files

TripIdsOf(trips) == [k \in 1..Len(trips) |-> trips[k].trip_id]

\* The target date as a YYYYMMDD integer, and its weekday by the calendar:
\* 14 June 2024 was a Friday, 15 June 2024 a Saturday.
TargetInt(dt) == dt.y * 10000 + dt.m * 100 + dt.d
DayName(dt) == IF dt = Fri THEN "friday" ELSE "saturday"

Base(dt) ==
    {r.service_id : r \in {x \in {Queried["calendar.txt"].rows[k] :
                                    k \in 1..Len(Queried["calendar.txt"].rows)} :
                            /\ x.start_date <= TargetInt(dt)
                            /\ TargetInt(dt) <= x.end_date
                            /\ x.days[DayName(dt)] = 1}}

ExceptionsOn(dt) ==
    {x \in {Queried["calendar_dates.txt"].rows[k] :
              k \in 1..Len(Queried["calendar_dates.txt"].rows)} : x.date = TargetInt(dt)}

Added(dt) == {x.service_id : x \in {e \in ExceptionsOn(dt) : e.exception_type = 1}}
Removed(dt) == {x.service_id : x \in {e \in ExceptionsOn(dt) : e.exception_type = 2}}

Active(dt) == (Base(dt) \ Removed(dt)) \cup Added(dt)

\* The trips.txt rows whose route_id is written exactly as the query.
WrittenAs(route_id) ==
    Pick(Queried["trips.txt"].rows,
         {k \in 1..Len(Queried["trips.txt"].rows) :
            Queried["trips.txt"].rows[k].route_id = route_id})

\* Those of them that run under one of the services.
RunningUnder(route_id, services) ==
    Pick(WrittenAs(route_id),
         {k \in 1..Len(WrittenAs(route_id)) : WrittenAs(route_id)[k].service_id \in services})

Survivors == ret.out.locals.survivors

----------------------------------------------------------------------------
(* C1. With calendar.txt present, the trips that survive service filtering *)
(* are exactly the trips of the route whose service_id is in               *)
(* (Base - Removed) + Added for the target date.                           *)
C1_SurvivorsAreActiveServices ==
    (Details /\ Queried["calendar.txt"].present /\ WrittenAs(ret.route_id) # <<>>)
    => TripIdsOf(Survivors)
         = TripIdsOf(RunningUnder(ret.route_id, Active(ret.date_time)))

(* C2. A service active by the weekly pattern and removed by an            *)
(* exception_type 2 row for the date (not added back) contributes no trip; *)
(* when nothing else is active the result is the NoTripsForDate error.     *)
C2_RemovedServiceContributesNothing ==
    (Details /\ WrittenAs(ret.route_id) # <<>>)
    => \A sid \in (Base(ret.date_time) \cap Removed(ret.date_time)) \ Added(ret.date_time) :
          /\ \A k \in 1..Len(Survivors) : Survivors[k].service_id # sid
          /\ Active(ret.date_time) = {} => ret.out.error = NoTripsForDate

(* C3. With calendar.txt present and no row valid for the date, the active *)
(* set is concrete, never None: without Added exceptions a route that has  *)
(* trips gets NoTripsForDate, with them only the Added services' trips     *)
(* survive.                                                                *)
C3_EmptyBaseIsConcrete ==
    (/\ Details
     /\ Queried["calendar.txt"].present
     /\ Base(ret.date_time) = {}
     /\ WrittenAs(ret.route_id) # <<>>)
    => /\ ~ret.out.locals.service_ids.none
       /\ Added(ret.date_time) = {} => ret.out.error = NoTripsForDate
       /\ Added(ret.date_time) # {}
            => TripIdsOf(Survivors)
                 = TripIdsOf(RunningUnder(ret.route_id, Added(ret.date_time)))

(* C4. With neither calendar.txt nor calendar_dates.txt the service filter *)
(* drops nothing: every trip of the route is used, and the result is the   *)
(* same for every date.                                                    *)
C4_NoCalendarsNoFilter ==
    (/\ Details
     /\ ~Queried["calendar.txt"].present
     /\ ~Queried["calendar_dates.txt"].present)
    => /\ IF WrittenAs(ret.route_id) = <<>>
          THEN ret.out.error = NoTripsForRoute
          ELSE /\ ret.out.error = ""
               /\ TripIdsOf(Survivors) = TripIdsOf(WrittenAs(ret.route_id))
       /\ \A dt \in TargetDates :
            get_route_details(disk, ret.folder_id, ret.route_id, dt) = ret.out

C4_Witness ==
    /\ Details
    /\ ~Queried["calendar.txt"].present
    /\ ~Queried["calendar_dates.txt"].present
    /\ ret.out.error = ""
    /\ {Survivors[k].service_id : k \in 1..Len(Survivors)} = Services

(* C5. With calendar.txt absent and a calendar_dates.txt row for the date, *)
(* the active set is exactly Added, as a concrete set, and the survivors   *)
(* are the route's trips under Added (none when every row is a removal);   *)
(* it stays None only when no row is for the date.                         *)
C5_ExceptionsAloneDefineActive ==
    (Details /\ ~Queried["calendar.txt"].present /\ WrittenAs(ret.route_id) # <<>>)
    => IF ExceptionsOn(ret.date_time) # {}
       THEN /\ ret.out.locals.service_ids = Ids(Added(ret.date_time))
            /\ TripIdsOf(Survivors)
                 = TripIdsOf(RunningUnder(ret.route_id, Added(ret.date_time)))
       ELSE /\ ret.out.locals.service_ids.none
            /\ TripIdsOf(Survivors) = TripIdsOf(WrittenAs(ret.route_id))

----------------------------------------------------------------------------
(* Route ids as the tables store them *)

TypedTrips == ReadRouteIdColumn(Queried["trips.txt"].rows)
TypedRoutes == ReadRoutes(Queried["routes.txt"].rows)

\* The three comparisons of a stored route_id with the query string s.
TriMatch(cell, s) ==
    \/ cell.t = "str" /\ cell.s = s
    \/ IsIntText(s) /\ cell.t = "int" /\ cell.i = IntOf(s)
    \/ (IF cell.t = "int" THEN StrOf(cell.i) ELSE cell.s) = s

(* C7. A trip matches the query string s iff its stored route_id equals s  *)
(* as a string, or equals int(s) when s is an integer, or equals s once    *)
(* coerced to a string; so a trip whose route_id is written as the query   *)
(* matches whether its column was read as text or as integers, and a       *)
(* non-integer query yields no error of its own.                           *)
C7_TripMatchIsRepresentationInvariant ==
    Details
    => LET hits == {k \in 1..Len(TypedTrips) : TriMatch(TypedTrips[k].route_id, ret.route_id)}
       IN  /\ hits = {} <=> ret.out.error = NoTripsForRoute
           /\ hits # {} => /\ ret.out.error = ""
                           /\ TripIdsOf(ret.out.locals.matched)
                                = TripIdsOf(Pick(TypedTrips, hits))
           /\ \A k \in 1..Len(TypedTrips) :
                 Queried["trips.txt"].rows[k].route_id = ret.route_id => k \in hits

C7_Witness ==
    /\ Details
    /\ ret.route_id = <<"0", "4">>
    /\ Len(ret.out.locals.matched) = 2
    /\ \A k \in 1..2 : ret.out.locals.matched[k].route_id = IntCell(4)
    /\ \E k \in 1..2 : Queried["trips.txt"].rows[k].route_id = <<"4">>

(* C8. The 'route' map of a successful result is the field map of the      *)
(* first routes.txt row whose route_id matches the query under any of the  *)
(* three comparisons, and is empty only when no row matches.               *)
C8_RouteByTriComparison ==
    (Details /\ ret.out.error = "")
    => LET hits == {k \in 1..Len(TypedRoutes) :
                      TriMatch(TypedRoutes[k].route_id, ret.route_id)}
       IN  IF hits = {} THEN ret.out.route = {}
           ELSE ret.out.route
                  = RouteFields(TypedRoutes[CHOOSE k \in hits : \A j \in hits : k <= j])

----------------------------------------------------------------------------
(* The store *)

IdsOf(entries) == {e.id : e \in entries}

\* The (group, snapshot) directory pairs holding all four required files.
ValidPairs(d) ==
    {p \in Groups \X Snaps :
        /\ d[p[1]].exists
        /\ d[p[1]].snaps[p[2]].exists
        /\ \A f \in RequiredSet : d[p[1]].snaps[p[2]].files[f].present}

WithFile(d, p, f, file) == [d EXCEPT ![p[1]].snaps[p[2]].files[f] = file]

\* A step of get_available_folders.
ListingStep == ret'.op = "get_available_folders" /\ ret' # ret /\ disk' = disk

(* C9. get_available_folders lists a (group, snapshot) directory pair iff  *)
(* it holds all four required files, under the id <group>/<snapshot>;      *)
(* without any one of the four a listed dataset is no longer listed, and    *)
(* optional tables do not change membership.                               *)
C9_ListedIffFourRequired ==
    [][ListingStep =>
        /\ IdsOf(ret'.out) = {<<p[1], p[2]>> : p \in ValidPairs(disk)}
        /\ \A e \in ret'.out : \A f \in RequiredSet :
              e.id \notin IdsOf(get_available_folders(WithFile(disk, e.id, f, NoFile)))
        /\ \A p \in Groups \X Snaps : \A f \in OptionalSet :
              disk[p[1]].exists /\ disk[p[1]].snaps[p[2]].exists
              => /\ (p \in IdsOf(ret'.out))
                      <=> (p \in IdsOf(get_available_folders(WithFile(disk, p, f, NoFile))))
                 /\ (p \in IdsOf(ret'.out))
                      <=> (p \in IdsOf(get_available_folders(WithFile(disk, p, f, File(<<>>)))))
      ]_vars

C9_Witness ==
    /\ ret.op = "get_available_folders"
    /\ IdsOf(ret.out) = {<<"g1", "t1">>}
    /\ disk["g2"].snaps["t1"].exists
    /\ up["u1"].pc = "idle"
    /\ disk["g1"].snaps["t1"].files["agency.txt"].present

\* A folder id that does not split into two parts, or names no directory
\* of the store whatever its state.
BadFolderId(id) == Len(id) # 2 \/ id[1] \notin Groups

\* A store whose dataset g1/t1 has a routes.txt without rows.
ZeroRoutesStore ==
    [g \in Groups |->
        IF g = "g1"
        THEN [exists |-> TRUE, zip |-> FALSE,
              snaps |-> [s \in Snaps |-> StoreSnap(RequiredSet, <<>>)]]
        ELSE NoGroup]

(* C10. On a malformed folder id, or one naming no directory, get_routes   *)
(* returns a failure that differs from what it returns for a dataset with  *)
(* zero routes, and get_route_details reports 'Folder not found'.          *)
C10_NotFoundIsDistinct ==
    /\ (ret.op = "get_routes" /\ BadFolderId(ret.folder_id))
         => ret.out # get_routes(ZeroRoutesStore, <<"g1", "t1">>)
    /\ (ret.op = "get_route_details" /\ BadFolderId(ret.folder_id))
         => ret.out.error = FolderNotFound

----------------------------------------------------------------------------
(* Ingest *)

MemberNames(archive) == {m[1] : m \in archive.members}

\* The step on which a call of upload_gtfs ends after extractall succeeded.
ValidateStep(u) == up[u].pc = "validate" /\ up'[u].pc = "idle"

\* A snapshot directory left behind without one of the required tables, no
\* call of upload_gtfs being at work in its group.
RetainedInvalid(p) ==
    /\ disk[p[1]].exists
    /\ disk[p[1]].snaps[p[2]].exists
    /\ \E f \in RequiredSet : ~disk[p[1]].snaps[p[2]].files[f].present
    /\ \A u \in Uploaders : up[u].group # p[1]

(* C11. A call of upload_gtfs whose archive extracted leaves no gtfs.zip   *)
(* in its group directory, whether validation passes or fails; when the    *)
(* archive lacks one of the four required tables the call raises the       *)
(* invalid-GTFS error and returns no id, the snapshot directory and every  *)
(* extracted file stay on disk, and no listing of get_available_folders    *)
(* ever holds that snapshot.                                               *)
C11_InvalidIngestIsRetained ==
    /\ [][\A u \in Uploaders : ValidateStep(u) =>
            /\ ~disk'[up[u].group].zip
            /\ ~(RequiredSet \subseteq MemberNames(up[u].archive)) =>
                  /\ ret'.op = "upload_gtfs"
                  /\ ret'.raised = InvalidGTFS
                  /\ ret'.folder_id = <<>>
                  /\ disk'[up[u].group].snaps[up[u].snap].exists
                  /\ \A m \in up[u].archive.members :
                        disk'[up[u].group].snaps[up[u].snap].files[m[1]] = File(m[2])
                  /\ <<up[u].group, up[u].snap>> \notin IdsOf(get_available_folders(disk'))
         ]_vars
    /\ [](ret.op = "get_available_folders"
            => \A e \in ret.out : ~RetainedInvalid(e.id))

C11_Witness ==
    /\ ret.op = "upload_gtfs"
    /\ ret.raised = InvalidGTFS
    /\ up["u1"].pc = "idle"
    /\ disk["g2"].snaps["t1"].exists
    /\ disk["g2"].snaps["t1"].files["routes.txt"].present
    /\ ~disk["g2"].snaps["t1"].files["stops.txt"].present
    /\ ~disk["g2"].zip

\* The dataset ids the last call handed to its reader: those listed by
\* get_available_folders, the one a query accepted.
Observed ==
    CASE ret.op = "get_available_folders" -> IdsOf(ret.out)
      [] ret.op = "get_routes" -> IF ret.out # <<>> THEN {ret.folder_id} ELSE {}
      [] ret.op = "get_route_details" -> IF ret.out.error = "" THEN {ret.folder_id} ELSE {}
      [] OTHER -> {}

(* C12. Whatever the interleaving of upload_gtfs with the readers, once a  *)
(* dataset id was listed by get_available_folders or accepted by a query,  *)
(* no later step of any ingest changes the set of tables of that snapshot  *)
(* directory or their contents.                                            *)
C12_ObservedDatasetsNeverChange ==
    [][\A p \in Observed : disk'[p[1]].snaps[p[2]] = disk[p[1]].snaps[p[2]]]_vars

----------------------------------------------------------------------------
(* Shape and stops *)

\* The trips.txt row, as written in the file, of the first trip that
\* survived the route and service filters.
FirstSurvivor ==
    CHOOSE r \in {Queried["trips.txt"].rows[k] : k \in 1..Len(Queried["trips.txt"].rows)} :
        r.trip_id = Survivors[1].trip_id

\* The points of shapes.txt whose shape_id is written as that trip's.
PointsOfFirst ==
    IF Queried["shapes.txt"].present /\ "shape_id" \in DOMAIN FirstSurvivor
    THEN {k \in 1..Len(Queried["shapes.txt"].rows) :
            Queried["shapes.txt"].rows[k].shape_id = FirstSurvivor.shape_id}
    ELSE {}

(* C13. The 'shape' of a successful result holds exactly the shapes.txt    *)
(* points whose shape_id is that of the first surviving trip, in ascending *)
(* shape_pt_sequence order whatever the file order; it is empty, without   *)
(* error, when shapes.txt is absent, trips.txt has no shape_id column or   *)
(* no point has that shape_id; no point of another shape appears.          *)
C13_ShapeOfFirstSurvivor ==
    (Details /\ ret.out.error = "")
    => LET pts == Queried["shapes.txt"].rows
           rank(k) == 1 + Cardinality({j \in PointsOfFirst :
                            pts[j].shape_pt_sequence < pts[k].shape_pt_sequence})
       IN  /\ Len(ret.out.shape) = Cardinality(PointsOfFirst)
           /\ \A k \in PointsOfFirst :
                 ret.out.shape[rank(k)]
                   = [lat |-> pts[k].shape_pt_lat, lng |-> pts[k].shape_pt_lon]

\* The stop ids written in the stop_times.txt rows of the surviving trips.
Referenced ==
    {Queried["stop_times.txt"].rows[j].stop_id :
        j \in {i \in 1..Len(Queried["stop_times.txt"].rows) :
                 \E k \in 1..Len(Survivors) :
                    Survivors[k].trip_id = Queried["stop_times.txt"].rows[i].trip_id}}

\* Those of them that stops.txt describes.
ReferencedStops ==
    {Queried["stops.txt"].rows[k].stop_id : k \in 1..Len(Queried["stops.txt"].rows)}
        \cap Referenced

(* C14. The 'stops' list of a successful result has one entry per stop_id  *)
(* for exactly the stops of stops.txt that a stop_times row of a surviving *)
(* trip refers to: a stop shared by trips or visited twice appears once,   *)
(* a stop of filtered-out trips only does not appear.                      *)
C14_StopsExactAndDeduplicated ==
    (Details /\ ret.out.error = "")
    => /\ {ret.out.stops[k].id : k \in 1..Len(ret.out.stops)} = ReferencedStops
       /\ Len(ret.out.stops) = Cardinality(ReferencedStops)

----------------------------------------------------------------------------
(* Round trip *)

\* upload_gtfs has just returned a dataset id.
Ingested == ret.op = "upload_gtfs" /\ ret.raised = ""

(* C15. After upload_gtfs returned an id for a valid archive, get_routes   *)
(* with that id returns a non-empty list of as many field maps as the      *)
(* archive's routes.txt has rows, with or without an agency.txt to join,   *)
(* and get_available_folders lists that id.                                *)
C15_IngestThenRoutes ==
    [][Ingested =>
        /\ (ret'.op = "get_routes" /\ ret'.folder_id = ret.folder_id)
              => /\ Len(ret'.out) > 0
                 /\ Len(ret'.out)
                      = Len(FileAt(disk, ret.folder_id[1], ret.folder_id[2], "routes.txt").rows)
        /\ ret'.op = "get_available_folders" => ret.folder_id \in IdsOf(ret'.out)
      ]_vars

====
